---- MODULE Spec2Model ----
(***************************************************************************)
(* Model of the EPUB-to-audiobook converter: the text normaliser and       *)
(* chunker (src/src/text_processor.py), the audio assembler and the        *)
(* chapter loop (src/src/audio_generator.py, src/src/tts_engine.py).       *)
(*                                                                         *)
(* A text is a sequence of one-character strings.  The characters that     *)
(* have no printable ASCII form are named:                                 *)
(*   "\n" newline, "\t" tab, "\r" carriage return,                         *)
(*   QUOT  the ASCII double quote U+0022,   APOS the ASCII apostrophe,     *)
(*   LDQUO RDQUO  the curly double quotes U+201C U+201D,                   *)
(*   LSQUO RSQUO  the curly single quotes U+2018 U+2019,                   *)
(*   ENDASH EMDASH  U+2013 U+2014,   ELLIPSIS  U+2026.                     *)
(***************************************************************************)
EXTENDS Integers, Sequences, FiniteSets, TLC

VARIABLES
    \* ---- text processor harness ----
    tpc,            \* position of the text harness: "input", "cleaned", "chunked"
    text,           \* the argument of clean_text / chunk_text
    max_chars,      \* the max_chars argument of chunk_text
    cleaned,        \* clean_text(text)
    recleaned,      \* clean_text(clean_text(text))
    chunks,         \* chunk_text(text, max_chars)
    \* ---- files and the audio assembler ----
    fs,             \* the output directory: path -> audio file
    apc,            \* position of the assembler harness
    in_files,       \* the list of paths handed to the assembler
    out_file,       \* the output path handed to the assembler
    ret,            \* the value returned by the last assembler call
    load_failed,    \* indices (1-based) whose load raised in combine_chapters
    \* ---- generate_audiobook ----
    pc,                     \* position in generate_audiobook
    chapters,               \* the chapters returned by parse_epub
    chap_i,                 \* i, the index of the chapter loop (0-based, as enumerate)
    chunk_j,                \* j, the index of the chunk loop (0-based)
    chapter_audio_files,    \* chunk files of the chapter whose synthesis succeeded
    output_files,           \* the list that generate_audiobook returns
    cleanup_idx,            \* position of the clean-up loop in chapter_audio_files
    synth_log,              \* history: chapter_num -> what generate_speech did per chunk
    assembled,              \* history: chapter_num -> what _combine_audio_files returned
    \* ---- main ----
    exit_code,              \* what main returned (-1 while it runs)
    interrupted             \* history: a KeyboardInterrupt was delivered to the run

textVars == <<tpc, text, max_chars, cleaned, recleaned, chunks>>
asmVars == <<fs, apc, in_files, out_file, ret, load_failed>>
genVars == <<pc, chapters, chap_i, chunk_j, chapter_audio_files, output_files, cleanup_idx,
             synth_log, assembled, exit_code, interrupted>>
vars == <<textVars, asmVars, genVars>>

(***************************************************************************)
(* Generic sequence helpers                                                *)
(***************************************************************************)
Min(S) == CHOOSE x \in S : \A y \in S : x <= y
Max(S) == 0 - Min({0 - x : x \in S})

Slice(t, a, b) == IF a > b THEN <<>> ELSE SubSeq(t, a, b)

RECURSIVE Concat(_)
Concat(ss) == IF ss = <<>> THEN <<>> ELSE Head(ss) \o Concat(Tail(ss))

Repeat(c, n) == [k \in 1..n |-> c]

\* The least of the indices hits of a text of length n, n + 1 when there is
\* none: where a left-to-right scan finds its next match.
FirstOf(hits, n) == IF hits = {} THEN n + 1 ELSE Min(hits)

\* Index of the last element of the maximal run of characters of S that
\* starts at i (i - 1 when t[i] is not in S).
RunEnd(t, i, S) == FirstOf({k \in i..Len(t) : t[k] \notin S}, Len(t)) - 1

\* Python's \s and str.isspace over the model's characters.
Whitespace == {" ", "\t", "\n", "\r"}

\* str.strip()
Strip(t) ==
    LET keep == {k \in 1..Len(t) : t[k] \notin Whitespace}
    IN  IF keep = {} THEN <<>> ELSE SubSeq(t, Min(keep), Max(keep))

\* t[i:].startswith(p)
StartsWithAt(t, i, p) ==
    /\ i + Len(p) - 1 <= Len(t)
    /\ \A k \in 1..Len(p) : t[i + k - 1] = p[k]

\* str.replace(old, new): leftmost non-overlapping occurrences, old non-empty.
RECURSIVE ReplaceFrom(_, _, _, _)
ReplaceFrom(t, i, old, new) ==
    LET s == FirstOf({k \in i..Len(t) : StartsWithAt(t, k, old)}, Len(t))
    IN  IF s > Len(t) THEN Slice(t, i, Len(t))
        ELSE Slice(t, i, s - 1) \o new \o ReplaceFrom(t, s + Len(old), old, new)

Replace(t, old, new) == ReplaceFrom(t, 1, old, new)

\* re.sub(c{n,}, new): every maximal run of at least n characters c becomes new.
RECURSIVE SubRunFrom(_, _, _, _, _)
SubRunFrom(t, i, c, n, new) ==
    LET s == FirstOf({k \in i..Len(t) : t[k] = c}, Len(t))
        e == RunEnd(t, s, {c})
    IN  IF s > Len(t) THEN Slice(t, i, Len(t))
        ELSE Slice(t, i, s - 1)
             \o (IF e - s + 1 >= n THEN new ELSE SubSeq(t, s, e))
             \o SubRunFrom(t, e + 1, c, n, new)

SubRun(t, c, n, new) == SubRunFrom(t, 1, c, n, new)

(***************************************************************************)
(* TextProcessor.clean_text                                                *)
(***************************************************************************)
\* re.sub(r'\n\s*\n\s*\n+', '\n\n', text): a match starts at a newline and,
\* the quantifiers being greedy, runs to the last newline of the whitespace
\* run that starts there; it exists when that run holds three newlines.
RECURSIVE SubBlankLinesFrom(_, _)
SubBlankLinesFrom(t, i) ==
    LET s   == FirstOf({k \in i..Len(t) : t[k] = "\n"}, Len(t))
        e   == RunEnd(t, s, Whitespace)
        nls == {k \in s..e : t[k] = "\n"}
    IN  IF s > Len(t) THEN Slice(t, i, Len(t))
        ELSE IF Cardinality(nls) >= 3
             THEN Slice(t, i, s - 1) \o <<"\n", "\n">> \o SubBlankLinesFrom(t, Max(nls) + 1)
             ELSE Slice(t, i, s) \o SubBlankLinesFrom(t, s + 1)

SubBlankLines(t) == SubBlankLinesFrom(t, 1)

\* re.sub(r'(?<!\n)\n(?!\n)', ' ', text): the lookarounds read the subject.
SubSingleNewlines(t) ==
    [k \in 1..Len(t) |->
        IF /\ t[k] = "\n"
           /\ (k = 1 \/ t[k - 1] # "\n")
           /\ (k = Len(t) \/ t[k + 1] # "\n")
        THEN " " ELSE t[k]]

\* text.replace('\r', '')
RemoveChar(t, c) == SelectSeq(t, LAMBDA x : x # c)

\* text.replace('\t', ' ')
ReplaceChar(t, c, d) == [k \in 1..Len(t) |-> IF t[k] = c THEN d ELSE t[k]]

LowerLetters == {"a","b","c","d","e","f","g","h","i","j","k","l","m",
                 "n","o","p","q","r","s","t","u","v","w","x","y","z"}
UpperLetters == {"A","B","C","D","E","F","G","H","I","J","K","L","M",
                 "N","O","P","Q","R","S","T","U","V","W","X","Y","Z"}
Digits == {"0","1","2","3","4","5","6","7","8","9"}

\* The character class of the URL pattern: [a-zA-Z] | [0-9] | [$-_@.&+]
\* (the range U+0024..U+005F) | [!*\(\),] (the %xx escape is inside the range).
UrlChars ==
    LowerLetters \cup UpperLetters \cup Digits
    \cup {"$", "%", "&", "APOS", "(", ")", "*", "+", ",", "-", ".", "/",
          ":", ";", "<", "=", ">", "?", "@", "[", "\\", "]", "^", "_"}
    \cup {"!"}

\* End of the match of http[s]?://(class)+ at i, or 0 when there is none.
UrlMatchEnd(t, i) ==
    LET body == IF StartsWithAt(t, i, <<"h","t","t","p","s",":","/","/">>) THEN i + 8
                ELSE IF StartsWithAt(t, i, <<"h","t","t","p",":","/","/">>) THEN i + 7
                ELSE 0
    IN  IF body = 0 THEN 0
        ELSE LET e == RunEnd(t, body, UrlChars)
             IN  IF e >= body THEN e ELSE 0

RECURSIVE RemoveUrlsFrom(_, _)
RemoveUrlsFrom(t, i) ==
    LET s == FirstOf({k \in i..Len(t) : UrlMatchEnd(t, k) # 0}, Len(t))
    IN  IF s > Len(t) THEN Slice(t, i, Len(t))
        ELSE Slice(t, i, s - 1) \o RemoveUrlsFrom(t, UrlMatchEnd(t, s) + 1)

RemoveUrls(t) == RemoveUrlsFrom(t, 1)

\* The replacements dict as the source file spells it, in insertion order.
\* Its first two keys are both the ASCII double quote (one entry), and the
\* two lines meant for the curly single quotes read as ONE triple-quoted key,
\* the 19-character string  : "'",\n + 12 spaces.
replacements ==
    << << <<"QUOT">>, <<"QUOT">> >>,
       << <<":", " ", "QUOT", "APOS", "QUOT", ",", "\n">> \o Repeat(" ", 12), <<"APOS">> >>,
       << <<"ENDASH">>, <<"-">> >>,
       << <<"EMDASH">>, <<"-">> >>,
       << <<"ELLIPSIS">>, <<".", ".", ".">> >> >>

RECURSIVE ApplyReplacements(_, _)
ApplyReplacements(t, rs) ==
    IF rs = <<>> THEN t
    ELSE ApplyReplacements(Replace(t, Head(rs)[1], Head(rs)[2]), Tail(rs))

clean_text(t) ==
    IF t = <<>> THEN <<>>
    ELSE LET t1 == SubRun(t, " ", 1, <<" ">>)
             t2 == SubBlankLines(t1)
             t3 == SubSingleNewlines(t2)
             t4 == RemoveChar(t3, "\r")
             t5 == ReplaceChar(t4, "\t", " ")
             t6 == RemoveUrls(t5)
             t7 == ApplyReplacements(t6, replacements)
             t8 == SubRun(t7, ".", 4, <<".", ".", ".">>)
             t9 == SubRun(t8, "!", 2, <<"!">>)
             t10 == SubRun(t9, "?", 2, <<"?">>)
         IN  Strip(t10)

(***************************************************************************)
(* TextProcessor.chunk_text                                                *)
(***************************************************************************)
\* text.split('\n\n'): leftmost non-overlapping separators, empty pieces kept.
RECURSIVE SplitParagraphsFrom(_, _)
SplitParagraphsFrom(t, i) ==
    LET s == FirstOf({k \in i..Len(t) : StartsWithAt(t, k, <<"\n", "\n">>)}, Len(t))
    IN  IF s > Len(t) THEN <<Slice(t, i, Len(t))>>
        ELSE <<Slice(t, i, s - 1)>> \o SplitParagraphsFrom(t, s + 2)

SplitParagraphs(t) == SplitParagraphsFrom(t, 1)

SentenceEnd == {".", "!", "?"}

\* re.split(r'(?<=[.!?])\s+', paragraph)
RECURSIVE SplitSentencesFrom(_, _)
SplitSentencesFrom(p, i) ==
    LET s == FirstOf({k \in i..Len(p) : k > 1 /\ p[k - 1] \in SentenceEnd /\ p[k] \in Whitespace}, Len(p))
    IN  IF s > Len(p) THEN <<Slice(p, i, Len(p))>>
        ELSE <<Slice(p, i, s - 1)>> \o SplitSentencesFrom(p, RunEnd(p, s, Whitespace) + 1)

SplitSentences(p) == SplitSentencesFrom(p, 1)

\* Index of the last character of the word that starts at i.
WordEnd(s, i) == FirstOf({k \in i..Len(s) : s[k] \in Whitespace}, Len(s)) - 1

\* sentence.split(): the maximal runs of non-whitespace characters.
RECURSIVE SplitWordsFrom(_, _)
SplitWordsFrom(s, i) ==
    LET b == FirstOf({k \in i..Len(s) : s[k] \notin Whitespace}, Len(s))
    IN  IF b > Len(s) THEN <<>>
        ELSE <<SubSeq(s, b, WordEnd(s, b))>> \o SplitWordsFrom(s, WordEnd(s, b) + 1)

SplitWords(s) == SplitWordsFrom(s, 1)

\* The word loop of an over-long sentence (lines 113-119).  st = <<chunks, temp_chunk>>.
RECURSIVE WordLoop(_, _, _, _)
WordLoop(words, k, st, M) ==
    IF k > Len(words) THEN st
    ELSE LET word == words[k]
             chs  == st[1]
             temp == st[2]
         IN  IF Len(temp) + Len(word) + 1 > M
             THEN WordLoop(words, k + 1,
                           <<IF temp # <<>> THEN Append(chs, Strip(temp)) ELSE chs, word>>, M)
             ELSE WordLoop(words, k + 1,
                           <<chs, IF temp # <<>> THEN temp \o <<" ">> \o word ELSE word>>, M)

\* A sentence loop that is not greedy: the buffer is flushed before every
\* sentence, whether or not the sentence would still fit.
SentenceStep_FlushEach(sentence, st, M) ==
    LET chs == st[1]
        cur == st[2]
        flushed == IF cur # <<>> THEN Append(chs, Strip(cur)) ELSE chs
    IN  IF Len(sentence) > M
        THEN LET w == WordLoop(SplitWords(sentence), 1, <<flushed, <<>>>>, M)
             IN  <<w[1], w[2]>>
        ELSE <<flushed, sentence>>

\* Mutant of SentenceStep: the limit test forgets the joining space
\* (len(current_chunk) + len(sentence) > max_chars).
SentenceStep_NoJoinSpace(sentence, st, M) ==
    LET chs == st[1]
        cur == st[2]
    IN  IF Len(cur) + Len(sentence) > M
        THEN LET flushed == IF cur # <<>> THEN Append(chs, Strip(cur)) ELSE chs
             IN  IF Len(sentence) > M
                 THEN LET w == WordLoop(SplitWords(sentence), 1, <<flushed, <<>>>>, M)
                      IN  <<w[1], w[2]>>
                 ELSE <<flushed, sentence>>
        ELSE <<chs, IF cur # <<>> THEN cur \o <<" ">> \o sentence ELSE sentence>>

\* One iteration of the sentence loop (lines 101-126).  st = <<chunks, current_chunk>>.
SentenceStep(sentence, st, M) ==
    LET chs == st[1]
        cur == st[2]
    IN  IF Len(cur) + Len(sentence) + 1 > M
        THEN LET flushed == IF cur # <<>> THEN Append(chs, Strip(cur)) ELSE chs
                 cur0    == IF cur # <<>> THEN <<>> ELSE cur
             IN  IF Len(sentence) > M
                 THEN LET w == WordLoop(SplitWords(sentence), 1, <<flushed, <<>>>>, M)
                      IN  <<w[1], IF w[2] # <<>> THEN w[2] ELSE cur0>>
                 ELSE <<flushed, sentence>>
        ELSE <<chs, IF cur # <<>> THEN cur \o <<" ">> \o sentence ELSE sentence>>

RECURSIVE SentenceLoop(_, _, _, _)
SentenceLoop(sentences, k, st, M) ==
    IF k > Len(sentences) THEN st
    ELSE SentenceLoop(sentences, k + 1, SentenceStep(sentences[k], st, M), M)

\* Mutant of ParagraphStep: the buffer left at the end of a paragraph
\* (lines 128-129) is not flushed.
ParagraphStep_NoFinalFlush(paragraph0, chs, M) ==
    LET paragraph == Strip(paragraph0)
    IN  IF paragraph = <<>> THEN chs
        ELSE IF Len(paragraph) <= M THEN Append(chs, paragraph)
        ELSE SentenceLoop(SplitSentences(paragraph), 1, <<chs, <<>>>>, M)[1]

\* One iteration of the paragraph loop (lines 87-129).
ParagraphStep(paragraph0, chs, M) ==
    LET paragraph == Strip(paragraph0)
    IN  IF paragraph = <<>> THEN chs
        ELSE IF Len(paragraph) <= M THEN Append(chs, paragraph)
        ELSE LET st == SentenceLoop(SplitSentences(paragraph), 1, <<chs, <<>>>>, M)
             IN  IF st[2] # <<>> THEN Append(st[1], Strip(st[2])) ELSE st[1]

RECURSIVE ParagraphLoop(_, _, _, _)
ParagraphLoop(paragraphs, k, chs, M) ==
    IF k > Len(paragraphs) THEN chs
    ELSE ParagraphLoop(paragraphs, k + 1, ParagraphStep(paragraphs[k], chs, M), M)

chunk_text(t, M) ==
    IF t = <<>> THEN <<>>
    ELSE ParagraphLoop(SplitParagraphs(t), 1, <<>>, M)

DefaultMaxChars == 500      \* max_chars: int = 500

(***************************************************************************)
(* Audio buffers and files                                                 *)
(*                                                                         *)
(* Sample data is run-length encoded: a sequence of runs [tag, n], n       *)
(* samples that come from the source named by tag (<<chapter_num, j>> for  *)
(* the speech of a chunk, "silence" for inserted silence).  Concatenating  *)
(* arrays (np.concatenate, AudioSegment +) is concatenating run sequences. *)
(* A file is [data, rate, format].                                         *)
(***************************************************************************)
SampleRate == 24000     \* generate_speech writes every chunk file at this rate
silence_ms == 2000      \* AudioSegment.silent(duration=2000)

RECURSIVE SampleCount(_)
SampleCount(data) ==
    IF data = <<>> THEN 0 ELSE Head(data).n + SampleCount(Tail(data))

WriteFile(f, path, file) ==
    [q \in DOMAIN f \cup {path} |-> IF q = path THEN file ELSE f[q]]

Unlink(f, path) == [q \in DOMAIN f \ {path} |-> f[q]]

\* The characters of a Python string literal, one per element.
Digit(d) == <<"0","1","2","3","4","5","6","7","8","9">>[d + 1]

\* f"{n:03d}" for 0 <= n < 1000
Fmt03(n) == <<Digit(n \div 100), Digit((n \div 10) % 10), Digit(n % 10)>>

WavExt == <<".", "w", "a", "v">>
ChapterPrefix == <<"c","h","a","p","t","e","r","_">>

\* f"chapter_{chapter_num:03d}_chunk_{j:03d}.wav" (inside output_dir)
chunk_file(chapter_num, j) ==
    ChapterPrefix \o Fmt03(chapter_num) \o <<"_","c","h","u","n","k","_">> \o Fmt03(j) \o WavExt

MaxNameLen == 100

\* AudiobookGenerator._sanitize_filename
sanitize_filename(filename) ==
    LET invalid_chars == {"<", ">", ":", "QUOT", "/", "\\", "|", "?", "*"}
        f1 == SelectSeq(filename, LAMBDA c : c \notin invalid_chars)
        f2 == IF Len(f1) > MaxNameLen THEN SubSeq(f1, 1, MaxNameLen) ELSE f1
    IN  ReplaceChar(f2, " ", "_")

\* f"chapter_{chapter_num:03d}_{self._sanitize_filename(chapter_title)}.wav"
chapter_file(chapter_num, title) ==
    ChapterPrefix \o Fmt03(chapter_num) \o <<"_">> \o sanitize_filename(title) \o WavExt

\* output_path.suffix[1:] : the characters after the last dot of the name.
Suffix(path) ==
    LET dots == {k \in 2..Len(path) : path[k] = "."}
    IN  IF dots = {} THEN <<>> ELSE SubSeq(path, Max(dots) + 1, Len(path))

\* Lines 175-177: the export format.
file_format(path) ==
    IF Suffix(path) \in {<<"w","a","v">>, <<"m","p","3">>, <<"o","g","g">>}
    THEN Suffix(path) ELSE <<"m","p","3">>

(***************************************************************************)
(* AudiobookGenerator._combine_audio_files                                 *)
(*                                                                         *)
(* fault is what the file system does to this call: "none", "read" (an     *)
(* sf.read raises) or "write" (sf.write raises and leaves no file).  A     *)
(* listed file that does not exist makes sf.read raise as well.  Every     *)
(* exception is caught at line 221 and turned into the return value False. *)
(* The result is [fs, ret].                                                *)
(***************************************************************************)
combine_audio_files(f, audio_files, output_file, fault) ==
    LET readable == /\ fault # "read"
                    /\ \A k \in 1..Len(audio_files) : audio_files[k] \in DOMAIN f
        combined_audio == [k \in 1..Len(audio_files) |-> f[audio_files[k]].data]
        \* the loop variable keeps the rate of the last file read
        samplerate == f[audio_files[Len(audio_files)]].rate
    IN  IF ~readable THEN [fs |-> f, ret |-> FALSE]
        ELSE IF audio_files = <<>> THEN [fs |-> f, ret |-> FALSE]  \* np.concatenate([]) raises
        ELSE IF fault = "write" THEN [fs |-> f, ret |-> FALSE]
        ELSE [fs |-> WriteFile(f, output_file,
                               [data |-> Concat(combined_audio),
                                rate |-> samplerate,
                                format |-> <<"w","a","v">>]),
              ret |-> TRUE]

(***************************************************************************)
(* AudiobookGenerator.combine_chapters                                     *)
(*                                                                         *)
(* An AudioSegment is [data, rate].  Adding two segments first brings both *)
(* to the higher frame rate; a silent segment is 2000 ms long whatever the *)
(* rate.  importOk: the two pydub imports of lines 149-150 succeed;        *)
(* failed: the indices whose AudioSegment.from_wav raises; exportOk: mkdir *)
(* and export succeed.  The result is [fs, ret].                           *)
(***************************************************************************)
EmptySegment == [data |-> <<>>, rate |-> 1]

Resample(data, from, to) ==
    IF from = to THEN data
    ELSE [k \in 1..Len(data) |-> [tag |-> data[k].tag, n |-> (data[k].n * to) \div from]]

\* combined += audio
AddSegment(a, b) ==
    LET r == IF a.rate >= b.rate THEN a.rate ELSE b.rate
    IN  [data |-> Resample(a.data, a.rate, r) \o Resample(b.data, b.rate, r), rate |-> r]

\* combined += silence
AddSilence(a) ==
    [data |-> Append(a.data, [tag |-> "silence", n |-> (silence_ms * a.rate) \div 1000]),
     rate |-> a.rate]

\* Mutant of CombineLoop: the silence is added after every chapter, the
\* last one included (the test i < len(chapter_files) - 1 dropped).
RECURSIVE CombineLoop_TrailingSilence(_, _, _, _, _)
CombineLoop_TrailingSilence(f, chapter_files, i, failed, combined) ==
    IF i > Len(chapter_files) THEN combined
    ELSE IF i \in failed \/ chapter_files[i] \notin DOMAIN f
         THEN CombineLoop_TrailingSilence(f, chapter_files, i + 1, failed, combined)
         ELSE LET audio == [data |-> f[chapter_files[i]].data, rate |-> f[chapter_files[i]].rate]
              IN  CombineLoop_TrailingSilence(f, chapter_files, i + 1, failed,
                                              AddSilence(AddSegment(combined, audio)))

\* The loop of lines 157-168 from index i (1-based) on.
RECURSIVE CombineLoop(_, _, _, _, _)
CombineLoop(f, chapter_files, i, failed, combined) ==
    IF i > Len(chapter_files) THEN combined
    ELSE IF i \in failed \/ chapter_files[i] \notin DOMAIN f
         THEN CombineLoop(f, chapter_files, i + 1, failed, combined)
         ELSE LET audio == [data |-> f[chapter_files[i]].data, rate |-> f[chapter_files[i]].rate]
                  c1    == AddSegment(combined, audio)
                  \* i < len(chapter_files) - 1 with the 0-based index
                  c2    == IF i - 1 < Len(chapter_files) - 1 THEN AddSilence(c1) ELSE c1
              IN  CombineLoop(f, chapter_files, i + 1, failed, c2)

combine_chapters(f, chapter_files, output_file, importOk, failed, exportOk) ==
    IF ~importOk THEN [fs |-> f, ret |-> FALSE]
    ELSE LET combined == CombineLoop(f, chapter_files, 1, failed, EmptySegment)
         IN  IF ~exportOk THEN [fs |-> f, ret |-> FALSE]
             ELSE [fs |-> WriteFile(f, output_file,
                                    [data |-> combined.data,
                                     rate |-> combined.rate,
                                     format |-> file_format(output_file)]),
                   ret |-> TRUE]

(***************************************************************************)
(* Text harness: clean_text and chunk_text applied to bounded inputs       *)
(***************************************************************************)
MaxTokens == 3      \* tokens per clean_text input, over AllTokens
MaxCoreTokens == 5  \* tokens per clean_text input, over CoreTokens
MaxLen == 6         \* characters per chunk_text input
MaxM == 3           \* largest max_chars tried

UrlToken == <<"h","t","t","p",":","/","/","x">>

AllTokens ==
    { <<" ">>, <<"\n">>, <<"\t">>, <<"\r">>, <<"a">>, <<".">>, <<"!">>, <<"?">>,
      UrlToken, <<"LDQUO">>, <<"RDQUO">>, <<"LSQUO">>, <<"RSQUO">>,
      <<"ENDASH">>, <<"EMDASH">>, <<"ELLIPSIS">> }

CoreTokens == { <<" ">>, <<"\n">>, <<"\t">>, <<"a">>, <<".">>, UrlToken }

ChunkChars == {"a", "b", ".", " ", "\n"}

SeqsUpTo(S, n) == UNION {[1..k -> S] : k \in 0..n}

CleanInputs ==
    {Concat(ts) : ts \in SeqsUpTo(AllTokens, MaxTokens)}
    \cup {Concat(ts) : ts \in SeqsUpTo(CoreTokens, MaxCoreTokens)}

ChunkInputs == SeqsUpTo(ChunkChars, MaxLen)

\* "Hello world. " * 50
HelloText ==
    Concat([k \in 1..50 |-> <<"H","e","l","l","o"," ","w","o","r","l","d","."," ">>])

TextIdle ==
    /\ tpc = "idle" /\ text = <<>> /\ max_chars = 0
    /\ cleaned = <<>> /\ recleaned = <<>> /\ chunks = <<>>

\* cleaned = clean_text(text)
Clean ==
    /\ tpc = "input"
    /\ cleaned' = clean_text(text)
    /\ tpc' = "cleaned"
    /\ UNCHANGED <<text, max_chars, recleaned, chunks, asmVars, genVars>>

\* recleaned = clean_text(cleaned)
CleanAgain ==
    /\ tpc = "cleaned"
    /\ recleaned' = clean_text(cleaned)
    /\ tpc' = "recleaned"
    /\ UNCHANGED <<text, max_chars, cleaned, chunks, asmVars, genVars>>

\* chunks = chunk_text(text, max_chars)
Chunk ==
    /\ tpc = "input"
    /\ chunks' = chunk_text(text, max_chars)
    /\ tpc' = "chunked"
    /\ UNCHANGED <<text, max_chars, cleaned, recleaned, asmVars, genVars>>


AsmIdle ==
    /\ fs = <<>> /\ apc = "idle" /\ in_files = <<>> /\ out_file = <<>>
    /\ ret = FALSE /\ load_failed = {}

GenIdle ==
    /\ pc = "idle" /\ chapters = <<>> /\ chap_i = 0 /\ chunk_j = 0
    /\ chapter_audio_files = <<>> /\ output_files = <<>> /\ cleanup_idx = 0
    /\ synth_log = <<>> /\ assembled = <<>>
    /\ exit_code = -1 /\ interrupted = FALSE

CleanInit ==
    /\ tpc = "input" /\ text \in CleanInputs /\ max_chars = 0
    /\ cleaned = <<>> /\ recleaned = <<>> /\ chunks = <<>>
    /\ AsmIdle /\ GenIdle

CleanNext == Clean \/ CleanAgain

SpecClean == CleanInit /\ [][CleanNext]_vars

ChunkInit ==
    /\ tpc = "input"
    /\ \/ text \in ChunkInputs /\ max_chars \in 1..MaxM
       \/ text = HelloText /\ max_chars = DefaultMaxChars
    /\ cleaned = <<>> /\ recleaned = <<>> /\ chunks = <<>>
    /\ AsmIdle /\ GenIdle

ChunkNext == Chunk

SpecChunk == ChunkInit /\ [][ChunkNext]_vars

(***************************************************************************)
(* Assembler harness: _combine_audio_files and combine_chapters applied to *)
(* bounded lists of audio files                                            *)
(***************************************************************************)
MaxFiles == 3       \* files per assembler call

Lens == {1000, 1500, 2000}      \* sample counts of the input files
Rates == {SampleRate, 22050}    \* sample rates of the input files
Faults == {"none", "read", "write"}

BookStem == <<"b","o","o","k">>
\* f"{input_path.stem}_complete.{args.format}", args.format in {wav, mp3}
combined_file(fmt) ==
    BookStem \o <<"_","c","o","m","p","l","e","t","e",".">> \o fmt

AsmInit ==
    /\ apc = "input"
    /\ \E inputs \in SeqsUpTo(Lens \X Rates, MaxFiles) :
          /\ in_files = [k \in 1..Len(inputs) |-> chunk_file(1, k - 1)]
          /\ fs = [q \in {chunk_file(1, k - 1) : k \in 1..Len(inputs)} |->
                      LET k == CHOOSE k \in 1..Len(inputs) : chunk_file(1, k - 1) = q
                      IN  [data |-> <<[tag |-> <<1, k - 1>>, n |-> inputs[k][1]]>>,
                           rate |-> inputs[k][2],
                           format |-> <<"w","a","v">>]]
    /\ out_file = <<>> /\ ret = FALSE /\ load_failed = {}
    /\ TextIdle /\ GenIdle

\* self._combine_audio_files(in_files, out_file)
CallCombineAudioFiles ==
    /\ apc = "input"
    /\ \E fault \in Faults :
          LET out == chapter_file(1, <<"A">>)
              r   == combine_audio_files(fs, in_files, out, fault)
          IN  /\ out_file' = out
              /\ fs' = r.fs
              /\ ret' = r.ret
    /\ apc' = "chapter_done"
    /\ UNCHANGED <<in_files, load_failed, textVars, genVars>>

\* generator.combine_chapters(in_files, out_file); the chapter files of a run
\* all have the rate generate_speech wrote.
CallCombineChapters ==
    /\ apc = "input"
    /\ \A k \in 1..Len(in_files) : fs[in_files[k]].rate = SampleRate
    /\ \E importOk \in BOOLEAN, exportOk \in BOOLEAN,
          failed \in SUBSET (1..Len(in_files)),
          fmt \in {<<"w","a","v">>, <<"m","p","3">>} :
          LET out == combined_file(fmt)
              r   == combine_chapters(fs, in_files, out, importOk, failed, exportOk)
          IN  /\ out_file' = out
              /\ fs' = r.fs
              /\ ret' = r.ret
              /\ load_failed' = failed
    /\ apc' = "book_done"
    /\ UNCHANGED <<in_files, textVars, genVars>>

AsmNext == CallCombineAudioFiles \/ CallCombineChapters

SpecAssembler == AsmInit /\ [][AsmNext]_vars

(***************************************************************************)
(* KokoroTTSEngine.generate_speech                                         *)
(*                                                                         *)
(* outcome is what the Kokoro pipeline does with the text: "ok" (it yields *)
(* audio, whose concatenation is audio), "no_audio" (it yields nothing) or *)
(* "error" (it, or the write, raises; caught at line 98).  self.pipeline   *)
(* is set whenever the constructor returned (lines 46-53).  The result is  *)
(* [fs, ret].                                                              *)
(***************************************************************************)
generate_speech(f, txt, output_path, outcome, audio) ==
    IF Strip(txt) = <<>> THEN [fs |-> f, ret |-> FALSE]
    ELSE IF outcome = "ok"
         THEN [fs |-> WriteFile(f, output_path,
                                [data |-> audio, rate |-> SampleRate,
                                 format |-> <<"w","a","v">>]),
               ret |-> TRUE]
         ELSE [fs |-> f, ret |-> FALSE]

(***************************************************************************)
(* AudiobookGenerator.generate_audiobook                                   *)
(***************************************************************************)
MaxChapters == 2        \* chapters in the book
MinChapterLen == 50     \* parse_epub drops shorter documents
chunk_max_chars == 500  \* chunk_text(cleaned_text, max_chars=500)
SynthLen == 1000        \* samples Kokoro yields for one chunk

\* Chapter texts as parse_epub produces them: at least 50 characters, joined
\* with single spaces (no line breaks).  TextUrl cleans to the empty string,
\* TextOne is one chunk, TextTwo (two sentences of 251 and 250 characters,
\* which do not fit into 500 together) is two.
TextUrl == <<"h","t","t","p",":","/","/">> \o Repeat("x", MinChapterLen)
TextOne == Repeat("a", MinChapterLen)
TextTwo == Repeat("a", 250) \o <<".", " ">> \o Repeat("b", 250)

\* A chapter record names its text; Content gives the characters.
TextNames == {"url", "one", "two"}
Content == [url |-> TextUrl, one |-> TextOne, two |-> TextTwo]

Titles == { <<"A", " ", "b">>, <<"c","h","u","n","k","_","0","0","0">> }

Chapters == [title : Titles, text : TextNames]

Outcomes == {"ok", "no_audio", "error"}

\* Line 79 and line 92, per text.
cleaned_text_of ==
    [url |-> clean_text(Content.url),
     one |-> clean_text(Content.one),
     two |-> clean_text(Content.two)]
chunks_of ==
    [url |-> chunk_text(cleaned_text_of.url, chunk_max_chars),
     one |-> chunk_text(cleaned_text_of.one, chunk_max_chars),
     two |-> chunk_text(cleaned_text_of.two, chunk_max_chars)]

\* The locals of the chapter loop's body (lines 72-92).
chapter_num == chap_i + 1
chapter_title == chapters[chapter_num].title
chapter_text == chapters[chapter_num].text
cleaned_text == cleaned_text_of[chapter_text]
chapter_chunks == chunks_of[chapter_text]

GenInit ==
    /\ pc = "start"
    /\ exit_code = -1 /\ interrupted = FALSE
    /\ \E n \in 1..MaxChapters : chapters \in [1..n -> Chapters]
    /\ chap_i = 0 /\ chunk_j = 0
    /\ chapter_audio_files = <<>> /\ output_files = <<>> /\ cleanup_idx = 0
    /\ synth_log = <<>> /\ assembled = <<>>
    /\ fs = <<>> /\ ret = FALSE
    /\ apc = "idle" /\ in_files = <<>> /\ out_file = <<>> /\ load_failed = {}
    /\ TextIdle

\* Lines 72-83: the chapter's text cleans to the empty string.
SkipEmptyChapter ==
    /\ pc = "loop" /\ chap_i < Len(chapters)
    /\ cleaned_text = <<>>
    /\ chap_i' = chap_i + 1
    /\ UNCHANGED <<exit_code, interrupted>>
    /\ UNCHANGED <<textVars, asmVars, pc, chapters, chunk_j,
                   chapter_audio_files, output_files, cleanup_idx, synth_log, assembled>>

\* Lines 72-96: clean and chunk the chapter's text, start the chunk loop.
StartChapter ==
    /\ pc = "loop" /\ chap_i < Len(chapters)
    /\ cleaned_text # <<>>
    /\ chapter_audio_files' = <<>>
    /\ chunk_j' = 0
    /\ synth_log' = [c \in DOMAIN synth_log \cup {chapter_num} |->
                        IF c = chapter_num THEN <<>> ELSE synth_log[c]]
    /\ pc' = "synth"
    /\ UNCHANGED <<exit_code, interrupted>>
    /\ UNCHANGED <<textVars, asmVars, chapters, chap_i, output_files,
                   cleanup_idx, assembled>>

\* A chunk loop that gives the chapter up at the first chunk whose synthesis
\* fails (as if line 105 ended in a break).
SynthesizeChunk_StopOnFailure ==
    /\ pc = "synth" /\ chunk_j < Len(chapter_chunks)
    /\ \E outcome \in Outcomes :
          LET path  == chunk_file(chapter_num, chunk_j)
              audio == <<[tag |-> <<chapter_num, chunk_j>>, n |-> SynthLen]>>
              r     == generate_speech(fs, chapter_chunks[chunk_j + 1], path, outcome, audio)
          IN  /\ fs' = r.fs
              /\ chapter_audio_files' =
                    IF r.ret THEN Append(chapter_audio_files, path) ELSE chapter_audio_files
              /\ synth_log' = [synth_log EXCEPT ![chapter_num] =
                                  Append(@, [ok |-> r.ret,
                                             data |-> IF r.ret THEN audio ELSE <<>>])]
              /\ chunk_j' = IF r.ret THEN chunk_j + 1 ELSE Len(chapter_chunks)
    /\ UNCHANGED <<exit_code, interrupted>>
    /\ UNCHANGED <<textVars, apc, in_files, out_file, ret, load_failed, pc, chapters,
                   chap_i, output_files, cleanup_idx, assembled>>

\* Lines 97-105: one iteration of the chunk loop.
SynthesizeChunk ==
    /\ pc = "synth" /\ chunk_j < Len(chapter_chunks)
    /\ \E outcome \in Outcomes :
          LET path  == chunk_file(chapter_num, chunk_j)
              audio == <<[tag |-> <<chapter_num, chunk_j>>, n |-> SynthLen]>>
              r     == generate_speech(fs, chapter_chunks[chunk_j + 1], path, outcome, audio)
          IN  /\ fs' = r.fs
              /\ chapter_audio_files' =
                    IF r.ret THEN Append(chapter_audio_files, path) ELSE chapter_audio_files
              /\ synth_log' = [synth_log EXCEPT ![chapter_num] =
                                  Append(@, [ok |-> r.ret,
                                             data |-> IF r.ret THEN audio ELSE <<>>])]
    /\ chunk_j' = chunk_j + 1
    /\ UNCHANGED <<exit_code, interrupted>>
    /\ UNCHANGED <<textVars, apc, in_files, out_file, ret, load_failed, pc, chapters,
                   chap_i, output_files, cleanup_idx, assembled>>

\* An assembly step that puts the new chapter file in front of the list.
AssembleChapter_Prepend ==
    /\ pc = "synth" /\ chunk_j = Len(chapter_chunks)
    /\ chapter_audio_files # <<>>
    /\ \E fault \in Faults :
          LET path == chapter_file(chapter_num, chapter_title)
              r    == combine_audio_files(fs, chapter_audio_files, path, fault)
          IN  /\ fs' = r.fs
              /\ ret' = r.ret
              /\ assembled' = [c \in DOMAIN assembled \cup {chapter_num} |->
                                  IF c = chapter_num THEN r.ret ELSE assembled[c]]
              /\ output_files' = <<path>> \o output_files
    /\ cleanup_idx' = 1
    /\ pc' = "cleanup"
    /\ UNCHANGED <<exit_code, interrupted>>
    /\ UNCHANGED <<textVars, apc, in_files, out_file, load_failed, chapters, chap_i,
                   chunk_j, chapter_audio_files, synth_log>>

\* Lines 108-111: combine the chunk files into the chapter file and list it.
\* The value _combine_audio_files returns is not looked at.
AssembleChapter ==
    /\ pc = "synth" /\ chunk_j = Len(chapter_chunks)
    /\ chapter_audio_files # <<>>
    /\ \E fault \in Faults :
          LET path == chapter_file(chapter_num, chapter_title)
              r    == combine_audio_files(fs, chapter_audio_files, path, fault)
          IN  /\ fs' = r.fs
              /\ ret' = r.ret
              /\ assembled' = [c \in DOMAIN assembled \cup {chapter_num} |->
                                  IF c = chapter_num THEN r.ret ELSE assembled[c]]
              /\ output_files' = Append(output_files, path)
    /\ cleanup_idx' = 1
    /\ pc' = "cleanup"
    /\ UNCHANGED <<exit_code, interrupted>>
    /\ UNCHANGED <<textVars, apc, in_files, out_file, load_failed, chapters, chap_i,
                   chunk_j, chapter_audio_files, synth_log>>

\* Line 108, chapter_audio_files empty: nothing is written for the chapter.
NoChapterAudio ==
    /\ pc = "synth" /\ chunk_j = Len(chapter_chunks)
    /\ chapter_audio_files = <<>>
    /\ chap_i' = chap_i + 1
    /\ pc' = "loop"
    /\ UNCHANGED <<exit_code, interrupted>>
    /\ UNCHANGED <<textVars, asmVars, chapters, chunk_j, chapter_audio_files,
                   output_files, cleanup_idx, synth_log, assembled>>

\* Lines 114-118: one iteration of the clean-up loop; unlink raises when the
\* file is gone or the system refuses, and the exception is swallowed.  The
\* bare except of line 117 catches every BaseException: a KeyboardInterrupt
\* delivered while the try block runs (before or after the file went) is
\* swallowed as well and the loop goes on.
CleanupChunk ==
    /\ pc = "cleanup" /\ cleanup_idx <= Len(chapter_audio_files)
    /\ \E unlinkOk \in BOOLEAN, interruptHere \in BOOLEAN :
          LET path == chapter_audio_files[cleanup_idx]
          IN  /\ fs' = IF unlinkOk /\ path \in DOMAIN fs THEN Unlink(fs, path) ELSE fs
              /\ interrupted' = (interrupted \/ interruptHere)
    /\ cleanup_idx' = cleanup_idx + 1
    /\ UNCHANGED exit_code
    /\ UNCHANGED <<textVars, apc, in_files, out_file, ret, load_failed, pc, chapters,
                   chap_i, chunk_j, chapter_audio_files, output_files, synth_log,
                   assembled>>

\* Line 120: the chapter is done, on to the next one.
ChapterCompleted ==
    /\ pc = "cleanup" /\ cleanup_idx > Len(chapter_audio_files)
    /\ chap_i' = chap_i + 1
    /\ pc' = "loop"
    /\ UNCHANGED <<exit_code, interrupted>>
    /\ UNCHANGED <<textVars, asmVars, chapters, chunk_j, chapter_audio_files,
                   output_files, cleanup_idx, synth_log, assembled>>

\* Lines 126-135: the loop is over, output_files is returned.
ReturnOutputFiles ==
    /\ pc = "loop" /\ chap_i = Len(chapters)
    /\ pc' = "returned"
    /\ UNCHANGED <<exit_code, interrupted>>
    /\ UNCHANGED <<textVars, asmVars, chapters, chap_i, chunk_j, chapter_audio_files,
                   output_files, cleanup_idx, synth_log, assembled>>

(***************************************************************************)
(* main (src/main.py), from the construction of the generator on: the      *)
(* input path and the voice were validated, the EPUB was parsed into       *)
(* chapters.                                                               *)
(***************************************************************************)
ExitInterrupted == 130      \* return 130
Formats == {<<"w","a","v">>, <<"m","p","3">>}   \* args.format

\* generate_audiobook line 64: KokoroTTSEngine(voice) is constructed.
InitTTSEngine ==
    /\ pc = "start"
    /\ pc' = "loop"
    /\ UNCHANGED <<textVars, asmVars, chapters, chap_i, chunk_j, chapter_audio_files,
                   output_files, cleanup_idx, synth_log, assembled, exit_code, interrupted>>

\* The constructor raises (tts_engine.py lines 51-53); main's except of line
\* 189 returns 1.
InitTTSEngineFails ==
    /\ pc = "start"
    /\ pc' = "exited" /\ exit_code' = 1
    /\ UNCHANGED <<textVars, asmVars, chapters, chap_i, chunk_j, chapter_audio_files,
                   output_files, cleanup_idx, synth_log, assembled, interrupted>>

\* A KeyboardInterrupt delivered outside the try block of the clean-up loop:
\* no except Exception catches it (tts_engine.py 98, audio_generator.py 122,
\* 166, 189, 221), it reaches main's except of line 186.
Interrupt ==
    /\ pc \in {"start", "loop", "synth", "cleanup", "returned"}
    /\ interrupted' = TRUE
    /\ pc' = "exited" /\ exit_code' = ExitInterrupted
    /\ UNCHANGED <<textVars, asmVars, chapters, chap_i, chunk_j, chapter_audio_files,
                   output_files, cleanup_idx, synth_log, assembled>>

\* main lines 152-154: no chapter file.
ExitNoAudio ==
    /\ pc = "returned" /\ output_files = <<>>
    /\ pc' = "exited" /\ exit_code' = 1
    /\ UNCHANGED <<textVars, asmVars, chapters, chap_i, chunk_j, chapter_audio_files,
                   output_files, cleanup_idx, synth_log, assembled, interrupted>>

\* main lines 157-184 without --combine.
ExitDone ==
    /\ pc = "returned" /\ output_files # <<>>
    /\ pc' = "exited" /\ exit_code' = 0
    /\ UNCHANGED <<textVars, asmVars, chapters, chap_i, chunk_j, chapter_audio_files,
                   output_files, cleanup_idx, synth_log, assembled, interrupted>>

\* A main that reports the failure of the combine step in its exit code.
CombineAndExit_FailureIsFatal ==
    /\ pc = "returned" /\ output_files # <<>>
    /\ \E importOk \in BOOLEAN, exportOk \in BOOLEAN, fmt \in Formats :
          LET out    == combined_file(fmt)
              failed == {k \in 1..Len(output_files) : output_files[k] \notin DOMAIN fs}
              r      == combine_chapters(fs, output_files, out, importOk, failed, exportOk)
          IN  /\ in_files' = output_files
              /\ out_file' = out
              /\ load_failed' = failed
              /\ fs' = r.fs
              /\ ret' = r.ret
              /\ exit_code' = IF r.ret THEN 0 ELSE 1
    /\ pc' = "exited"
    /\ UNCHANGED <<textVars, apc, chapters, chap_i, chunk_j, chapter_audio_files,
                   output_files, cleanup_idx, synth_log, assembled, interrupted>>

\* main lines 157-184 with --combine: combine_chapters(chapter_files,
\* combined_path), whose result only changes what is printed.  A chapter
\* file that is not there fails to load.
CombineAndExit ==
    /\ pc = "returned" /\ output_files # <<>>
    /\ \E importOk \in BOOLEAN, exportOk \in BOOLEAN, fmt \in Formats :
          LET out    == combined_file(fmt)
              failed == {k \in 1..Len(output_files) : output_files[k] \notin DOMAIN fs}
              r      == combine_chapters(fs, output_files, out, importOk, failed, exportOk)
          IN  /\ in_files' = output_files
              /\ out_file' = out
              /\ load_failed' = failed
              /\ fs' = r.fs
              /\ ret' = r.ret
    /\ pc' = "exited" /\ exit_code' = 0
    /\ UNCHANGED <<textVars, apc, chapters, chap_i, chunk_j, chapter_audio_files,
                   output_files, cleanup_idx, synth_log, assembled, interrupted>>

Next ==
    \/ InitTTSEngine
    \/ InitTTSEngineFails
    \/ SkipEmptyChapter
    \/ StartChapter
    \/ SynthesizeChunk
    \/ AssembleChapter
    \/ NoChapterAudio
    \/ CleanupChunk
    \/ ChapterCompleted
    \/ ReturnOutputFiles
    \/ Interrupt
    \/ ExitNoAudio
    \/ ExitDone
    \/ CombineAndExit

Spec == GenInit /\ [][Next]_vars

(***************************************************************************)
(* Claims about generate_audiobook                                         *)
(***************************************************************************)
Paths(files) == {files[k] : k \in 1..Len(files)}

\* The audio of the chunks of a chapter whose synthesis succeeded, in chunk
\* order (a failed chunk has no audio).
OkData(log) == Concat([k \in 1..Len(log) |-> log[k].data])
HasOk(log) == \E k \in 1..Len(log) : log[k].ok

\* The chunk files of chapter c whose synthesis succeeded, in chunk order.
OkFiles(c, log) ==
    LET idx == SelectSeq([k \in 1..Len(log) |-> k], LAMBDA k : log[k].ok)
    IN  [m \in 1..Len(idx) |-> chunk_file(c, idx[m] - 1)]

\* C9 (as claimed): a chapter whose assembly failed is not in the list that
\* generate_audiobook returns; every path of the returned list names the
\* file of a chapter whose assembly succeeded.
C9_FailedAssemblySkipped ==
    pc = "returned" =>
        /\ \A c \in DOMAIN assembled :
              ~assembled[c] => chapter_file(c, chapters[c].title) \notin Paths(output_files)
        /\ \A k \in 1..Len(output_files) :
              \E c \in DOMAIN assembled :
                  output_files[k] = chapter_file(c, chapters[c].title) /\ assembled[c]

\* C10: a failed chunk does not stop its chapter: every chunk of a chapter
\* is tried; a chapter file that was assembled holds exactly the audio of
\* the chunks whose synthesis succeeded, in chunk order; in the end a chapter
\* is in the returned list iff one of its chunks succeeded, and every chapter
\* with text was processed, whatever failed before it.
C10_FailedChunksOmitted ==
    /\ (pc = "cleanup" /\ cleanup_idx = 1) =>
          /\ Len(synth_log[chapter_num]) = Len(chapter_chunks)
          /\ chapter_audio_files = OkFiles(chapter_num, synth_log[chapter_num])
          /\ ret = TRUE =>
                /\ chapter_file(chapter_num, chapter_title) \in DOMAIN fs
                /\ fs[chapter_file(chapter_num, chapter_title)].data =
                      OkData(synth_log[chapter_num])
    /\ pc = "returned" =>
          \A c \in 1..Len(chapters) :
              LET file == chapter_file(c, chapters[c].title)
                  name == chapters[c].text
              IN  IF cleaned_text_of[name] = <<>>
                  THEN c \notin DOMAIN synth_log /\ file \notin Paths(output_files)
                  ELSE /\ c \in DOMAIN synth_log
                       /\ Len(synth_log[c]) = Len(chunks_of[name])
                       /\ file \in Paths(output_files) <=> HasOk(synth_log[c])

\* C10 witness: chapter 1 had both chunks fail and is not listed; chapter 2
\* was processed all the same, its first chunk failed, its second succeeded
\* and its file was assembled from that one chunk.
C10_Witness ==
    /\ pc = "cleanup" /\ cleanup_idx = 1 /\ ret = TRUE
    /\ chapter_num = 2 /\ DOMAIN synth_log = {1, 2}
    /\ Len(synth_log[1]) = 2 /\ ~HasOk(synth_log[1])
    /\ output_files = <<chapter_file(2, chapter_title)>>
    /\ Len(synth_log[2]) = 2
    /\ ~synth_log[2][1].ok /\ synth_log[2][2].ok
    /\ chapter_file(2, chapter_title) \in DOMAIN fs
    /\ fs[chapter_file(2, chapter_title)].data = <<[tag |-> <<2, 1>>, n |-> SynthLen]>>

\* C11: once the generator runs on validated input, a run that no user
\* interrupt ends exits with 0 iff the list of chapter files is not empty and
\* with 1 iff it is empty, whether or not the combine step was asked for and
\* whatever it returned; and leaving main removes no chapter file that is
\* on disk.
C11_ExitCode ==
    [][(pc # "exited" /\ pc' = "exited" /\ exit_code' # ExitInterrupted) =>
          /\ exit_code' = 0 <=> output_files' # <<>>
          /\ exit_code' = 1 <=> output_files' = <<>>
          /\ \A path \in Paths(output_files) \cap DOMAIN fs : path \in DOMAIN fs']_vars

\* C11 witness: the combine step was asked for and failed, the run exits
\* with 0 and the chapter file is still there.
C11_Witness ==
    /\ pc = "exited" /\ exit_code = 0
    /\ out_file = combined_file(<<"m","p","3">>) /\ ret = FALSE
    /\ out_file \notin DOMAIN fs
    /\ Len(output_files) = 1 /\ output_files[1] \in DOMAIN fs

\* C12 (as claimed): once a KeyboardInterrupt was delivered the run has
\* ended with exit code 130; it never goes on or returns 0.
C12_InterruptEndsRun ==
    interrupted => (pc = "exited" /\ exit_code = ExitInterrupted)

\* The chapters whose chunk loop is over.
ChunkLoopDone(c) ==
    c \in DOMAIN synth_log /\ (c < chapter_num \/ pc \in {"cleanup", "returned", "exited"})

\* C13 (as claimed): a chapter's chunk files are only deleted after its
\* chapter file was written successfully, so the audio of a chapter with a
\* synthesized chunk is on disk as all its chunk files or as its chapter file.
C13_AudioKeptOnDisk ==
    \A c \in DOMAIN synth_log :
        LET files == OkFiles(c, synth_log[c])
            file  == chapter_file(c, chapters[c].title)
        IN  /\ (\E k \in 1..Len(files) : files[k] \notin DOMAIN fs) =>
                  (c \in DOMAIN assembled /\ assembled[c])
            /\ (ChunkLoopDone(c) /\ HasOk(synth_log[c])) =>
                  \/ \A k \in 1..Len(files) : files[k] \in DOMAIN fs
                  \/ file \in DOMAIN fs /\ fs[file].data = OkData(synth_log[c])

\* The k-th smallest element of a set of numbers.
Nth(S, k) == CHOOSE x \in S : Cardinality({y \in S : y <= x}) = k

\* C14: chapters are processed one at a time in order and chunks in sequence
\* order: the chapter index only moves on by one, and only when the chunk
\* loop and the clean-up loop of the chapter are over; a chunk is only
\* synthesized for the current chapter, as the next of its chunks; the list
\* of chapter files (empty at the start) holds, after every step that changes
\* it, one file per assembled chapter, in strictly increasing chapter order.
C14_Sequential ==
    [][/\ chap_i' \in {chap_i, chap_i + 1}
       /\ chap_i' = chap_i + 1 =>
             \/ pc = "loop" /\ cleaned_text = <<>>
             \/ pc = "synth" /\ chunk_j = Len(chapter_chunks) /\ chapter_audio_files = <<>>
             \/ pc = "cleanup" /\ cleanup_idx > Len(chapter_audio_files)
       /\ synth_log' # synth_log =>
             /\ chap_i' = chap_i
             /\ DOMAIN synth_log' = DOMAIN synth_log \cup {chapter_num}
             /\ \A c \in DOMAIN synth_log \ {chapter_num} : synth_log'[c] = synth_log[c]
             /\ \/ pc = "loop" /\ synth_log'[chapter_num] = <<>>
                \/ /\ pc = "synth"
                   /\ Len(synth_log[chapter_num]) = chunk_j
                   /\ Len(synth_log'[chapter_num]) = chunk_j + 1
                   /\ chunk_j' = chunk_j + 1
                   /\ SubSeq(synth_log'[chapter_num], 1, chunk_j) = synth_log[chapter_num]
       /\ (output_files' # output_files \/ assembled' # assembled) =>
             output_files' =
               [k \in 1..Cardinality(DOMAIN assembled') |->
                   LET c == Nth(DOMAIN assembled', k)
                   IN  chapter_file(c, chapters[c].title)]]_vars

\* C14 witness: two chapters were assembled, the second has two chunks, and
\* the list holds the file of chapter 1 before the file of chapter 2.
C14_Witness ==
    /\ pc = "returned"
    /\ DOMAIN assembled = {1, 2}
    /\ Len(synth_log[2]) = 2
    /\ output_files = <<chapter_file(1, chapters[1].title), chapter_file(2, chapters[2].title)>>

\* C16 (as claimed): the chapter file of a chapter has another path than
\* each of its chunk files, so the clean-up loop never deletes a chapter file
\* that was assembled and listed.
C16_ChapterFileApart ==
    /\ pc \in {"synth", "cleanup"} =>
          \A k \in 1..Len(chapter_audio_files) :
              chapter_audio_files[k] # chapter_file(chapter_num, chapter_title)
    /\ \A c \in DOMAIN assembled :
          (assembled[c] /\ c <= chap_i) => chapter_file(c, chapters[c].title) \in DOMAIN fs

(***************************************************************************)
(* Claims about the text processor                                         *)
(***************************************************************************)
\* " ".join(chunks)
RECURSIVE JoinSpaces(_)
JoinSpaces(cs) ==
    IF cs = <<>> THEN <<>>
    ELSE IF Len(cs) = 1 THEN cs[1]
    ELSE cs[1] \o <<" ">> \o JoinSpaces(Tail(cs))

IsSingleWord(c) == SplitWords(c) = <<c>>

\* C1: every chunk returned by chunk_text(T, M) has length at most M, unless
\* the chunk is exactly one whitespace-delimited word longer than M.
C1_ChunkWithinMax ==
    tpc = "chunked" =>
        \A k \in 1..Len(chunks) :
            \/ Len(chunks[k]) <= max_chars
            \/ (IsSingleWord(chunks[k]) /\ Len(chunks[k]) > max_chars)

\* C1 witness: one paragraph split at word level into a chunk that is one
\* over-long word, followed by a chunk that fills the limit exactly.
C1_Witness ==
    /\ tpc = "chunked"
    /\ Len(SplitParagraphs(text)) = 1
    /\ \E k \in 1..Len(chunks) - 1 :
          /\ Len(chunks[k]) > max_chars
          /\ Len(chunks[k + 1]) = max_chars

\* C2: the chunks of chunk_text(T, M), joined in output order with single
\* spaces, hold exactly the whitespace-delimited words of T, in T's order.
C2_WordsPreserved ==
    tpc = "chunked" => SplitWords(JoinSpaces(chunks)) = SplitWords(text)

\* C2 witness: a text of two paragraphs, one of them split further, whose
\* chunks carry the words a and b in the order of the text.
C2_Witness ==
    /\ tpc = "chunked"
    /\ Len(SelectSeq(SplitParagraphs(text), LAMBDA q : Strip(q) # <<>>)) = 2
    /\ Len(chunks) >= 3
    /\ \E i, j \in 1..Len(SplitWords(text)) :
          i < j /\ SplitWords(text)[i] = <<"a">> /\ SplitWords(text)[j] = <<"b">>

\* C15: a text that is one paragraph longer than max_chars, all of whose
\* sentences are at most max_chars long, is split at sentence boundaries
\* only and greedily: the chunks are runs of whole consecutive sentences
\* joined by single spaces, and the first sentence of the next chunk, added
\* with a joining space, would take a chunk over max_chars.  "Hello world. "
\* fifty times with max_chars = 500 gives exactly 2 chunks.
C15_SentenceGreedy ==
    /\ (tpc = "chunked" /\ text = HelloText /\ max_chars = DefaultMaxChars) =>
          Len(chunks) = 2
    /\ (/\ tpc = "chunked"
        /\ Len(SplitParagraphs(text)) = 1
        /\ Len(Strip(text)) > max_chars
        /\ \A k \in 1..Len(SplitSentences(Strip(text))) :
               Len(SplitSentences(Strip(text))[k]) <= max_chars) =>
          LET groups == [k \in 1..Len(chunks) |-> SplitSentences(chunks[k])]
          IN  /\ Concat(groups) = SplitSentences(Strip(text))
              /\ \A k \in 1..Len(chunks) : chunks[k] = JoinSpaces(groups[k])
              /\ \A k \in 1..Len(chunks) - 1 :
                    Len(chunks[k]) + 1 + Len(groups[k + 1][1]) > max_chars

\* C15 witness: the fifty sentences come out as a chunk of 38 sentences (493
\* characters) and a chunk of 12.
C15_Witness ==
    /\ tpc = "chunked" /\ text = HelloText /\ max_chars = DefaultMaxChars
    /\ Len(chunks) = 2
    /\ Len(SplitSentences(chunks[1])) = 38 /\ Len(chunks[1]) = 493
    /\ Len(SplitSentences(chunks[2])) = 12

\* C3 (as claimed): clean_text(clean_text(T)) = clean_text(T) for every T.
C3_Idempotent ==
    tpc = "recleaned" => recleaned = cleaned

SpecialChars ==
    {"LDQUO", "RDQUO", "LSQUO", "RSQUO", "ENDASH", "EMDASH", "ELLIPSIS"}

\* C4 (as claimed): the output of clean_text holds no curly quote, no en or
\* em dash and no ellipsis character.
C4_NoSpecialChars ==
    tpc = "cleaned" => \A k \in 1..Len(cleaned) : cleaned[k] \notin SpecialChars

(***************************************************************************)
(* Claims about the audio assembler                                        *)
(***************************************************************************)
IsSilence(run) == run.tag = "silence"

RECURSIVE SumCounts(_, _)
SumCounts(f, paths) ==
    IF paths = <<>> THEN 0
    ELSE SampleCount(f[Head(paths)].data) + SumCounts(f, Tail(paths))

BookWritten == apc = "book_done" /\ ret = TRUE

\* C5: for a non-empty list of n chapter buffers, the combined audio has the
\* chapters' samples plus (n - 1) silences of 2000 ms (48000 samples at
\* 24000 Hz), and the chapters appear in list order.
C5_BookSampleCount ==
    (BookWritten /\ in_files # <<>> /\ load_failed = {}) =>
        /\ out_file \in DOMAIN fs
        /\ SampleCount(fs[out_file].data) =
              SumCounts(fs, in_files) + (Len(in_files) - 1) * 48000
        /\ SelectSeq(fs[out_file].data, LAMBDA run : ~IsSilence(run)) =
              Concat([k \in 1..Len(in_files) |-> fs[in_files[k]].data])

\* C5 witness: chapters of 1000, 2000 and 1500 samples combined into 100500.
C5_Witness ==
    /\ BookWritten /\ load_failed = {}
    /\ Len(in_files) = 3
    /\ [k \in 1..3 |-> SampleCount(fs[in_files[k]].data)] = <<1000, 2000, 1500>>
    /\ SampleCount(fs[out_file].data) = 100500

\* C6 (as claimed): in a combined audiobook every inserted silence stands
\* between two chapter audios; the audio never starts or ends with one,
\* whichever chapter files load or fail to load.
C6_SilenceOnlyBetween ==
    BookWritten =>
        LET data == fs[out_file].data
        IN  \A k \in 1..Len(data) :
                IsSilence(data[k]) =>
                    /\ 1 < k /\ k < Len(data)
                    /\ ~IsSilence(data[k - 1])
                    /\ ~IsSilence(data[k + 1])

\* C7 (as claimed): combining chunk buffers of differing sample rates fails
\* and writes no chapter file.
C7_RateMismatchFails ==
    (/\ apc = "chapter_done"
     /\ \E a, b \in 1..Len(in_files) : fs[in_files[a]].rate # fs[in_files[b]].rate)
        => (ret = FALSE /\ out_file \notin DOMAIN fs)

\* C8 (as claimed): combine_chapters called with zero chapters fails: it
\* does not report success and writes no combined file.
C8_EmptyBookFails ==
    (apc = "book_done" /\ in_files = <<>>) =>
        (ret = FALSE /\ out_file \notin DOMAIN fs)

====
